---------------------------- MODULE Spec2Model ----------------------------
(***************************************************************************)
(* Budget-aware model selection and spend accounting of OpenAILLM          *)
(* (src/evadb/functions/llms/openai.py).                                   *)
(*                                                                         *)
(* Dollar amounts are Python floats (IEEE-754 binary64).  They are         *)
(* modelled exactly: a value is a sign and a magnitude counted in units    *)
(* of 2^-72 dollars, held in three limbs of 26 bits, and every arithmetic  *)
(* operation rounds its exact result to 53 significant bits, ties to       *)
(* even.  Every amount the program computes here is 0 or has a magnitude   *)
(* in [2^-20, 2^6), so it is a multiple of 2^-72 and the representation    *)
(* loses nothing.                                                          *)
(*                                                                         *)
(* Texts are named constants; the tokenizer is the table NumTokens.        *)
(*                                                                         *)
(* A session's model_params is a dict of its own, but the list under       *)
(* "messages" is an object the dict only refers to: model_params holds     *)
(* the name of a list and the variable lists holds the lists' contents.    *)
(***************************************************************************)
EXTENDS Integers, Sequences, FiniteSets, TLC

(***************************************************************************)
(* Python float arithmetic                                                 *)
(***************************************************************************)
Limb == 2^26

RECURSIVE BitLen(_)
BitLen(n) == IF n = 0 THEN 0 ELSE 1 + BitLen(n \div 2)

MagZero == <<0, 0, 0>>

MagAdd(x, y) ==
    LET lo  == x[3] + y[3]
        mid == x[2] + y[2] + (lo \div Limb)
        hi  == x[1] + y[1] + (mid \div Limb)
    IN  <<hi, mid % Limb, lo % Limb>>

MagLess(x, y) ==
    \/ x[1] < y[1]
    \/ x[1] = y[1] /\ x[2] < y[2]
    \/ x[1] = y[1] /\ x[2] = y[2] /\ x[3] < y[3]

\* x - y for x >= y
MagSub(x, y) ==
    LET lo  == x[3] - y[3]
        bl  == IF lo < 0 THEN 1 ELSE 0
        mid == x[2] - y[2] - bl
        bm  == IF mid < 0 THEN 1 ELSE 0
    IN  <<x[1] - y[1] - bm, mid + bm * Limb, lo + bl * Limb>>

RECURSIVE MagTimes(_, _)
MagTimes(x, n) ==
    IF n = 0 THEN MagZero
    ELSE LET h == MagTimes(x, n \div 2)
             d == MagAdd(h, h)
         IN  IF n % 2 = 1 THEN MagAdd(d, x) ELSE d

\* round to 53 significant bits, ties to even
Round53(x) ==
    LET s == BitLen(x[1]) - 1
    IN  IF s <= 0 THEN x
        ELSE LET unit == 2^s
                 rem  == x[3] % unit
                 half == unit \div 2
                 down == <<x[1], x[2], x[3] - rem>>
                 odd  == (x[3] \div unit) % 2 = 1
             IN  IF rem > half \/ (rem = half /\ odd)
                 THEN MagAdd(down, <<0, 0, unit>>)
                 ELSE down

Float(neg, mag) == [neg |-> neg /\ mag # MagZero, mag |-> mag]

FloatOfInt(n) ==
    Float(n < 0, <<(IF n < 0 THEN 0 - n ELSE n) * 2^20, 0, 0>>)

FloatNeg(x) == Float(~x.neg, x.mag)

FloatAdd(x, y) ==
    IF x.neg = y.neg THEN Float(x.neg, Round53(MagAdd(x.mag, y.mag)))
    ELSE IF MagLess(x.mag, y.mag)
         THEN Float(y.neg, Round53(MagSub(y.mag, x.mag)))
         ELSE Float(x.neg, Round53(MagSub(x.mag, y.mag)))

FloatSub(x, y) == FloatAdd(x, FloatNeg(y))

\* float * int, the int being a token count
FloatMul(x, n) == Float(x.neg, Round53(MagTimes(x.mag, n)))

FloatLeq(x, y) ==
    IF x.neg # y.neg THEN x.neg
    ELSE IF x.neg THEN ~MagLess(x.mag, y.mag)
         ELSE ~MagLess(y.mag, x.mag)

FloatGeqZero(x) == ~x.neg


(***************************************************************************)
(* Bounds of the model                                                     *)
(***************************************************************************)
MaxBatch == 2

\* generate calls of one process
MaxCalls == 2

(***************************************************************************)
(* Module constants of openai.py                                           *)
(***************************************************************************)
MODEL_CHOICES ==
    << "gpt-4", "gpt-4-0314", "gpt-3.5-turbo-16k", "gpt-3.5-turbo-16k-0613",
       "gpt-3.5-turbo", "gpt-3.5-turbo-0301" >>

LastChoice == MODEL_CHOICES[Len(MODEL_CHOICES)]

Models == {MODEL_CHOICES[k] : k \in 1..Len(MODEL_CHOICES)}

None == "None"

DEFAULT_PROMPT == "You are a helpful assistant that accomplishes user tasks."

DefaultMaxTokens == 1000

\* the list object that line 44 creates once, when the module is loaded
DEFAULT_MESSAGES == "_DEFAULT_PARAMS.messages"

DEFAULT_PARAMS ==
    [model |-> "gpt-3.5-turbo", temperature |-> 0,
     max_tokens |-> DefaultMaxTokens, messages |-> DEFAULT_MESSAGES]

\* mutants: one attempt fewer, one attempt more
Tries_Fewer == 6 - 1
Tries_More == 6 + 1

\* tries=6 of the retry decorator
Tries == 6

(***************************************************************************)
(* Collaborators: tokenizer, price table, inputs                           *)
(***************************************************************************)
\* max_tokens values a session is set up with: the default and an override
SetupMaxTokens == {DefaultMaxTokens, 16 * DefaultMaxTokens}

Prompts == {None, "p_long"}
Queries == {"q"}
Contents == {"c_short", "c_long"}
Responses == {"r_short", "r_1000", "r_16000"}

\* len(encoding.encode(text)); all six models share one encoding
NumTokens(text) ==
    CASE text = DEFAULT_PROMPT -> 11
      [] text = "p_long"  -> 250
      [] text = "q"       -> 4
      [] text = "c_short" -> 6
      [] text = "c_long"  -> 2000
      [] text = "r_short" -> 2
      [] text = "r_1000"  -> 1000
      [] text = "r_16000" -> 16000

\* Dollars per token as binary64 values, in units of 2^-72:
\*   0.00003   = 0x1.f75104d551d69p-16    0.00006  = 0x1.f75104d551d69p-15
\*   0.000003  = 0x1.92a737110e454p-19    0.000004 = 0x1.0c6f7a0b5ed8dp-18
\*   0.0000015 = 0x1.92a737110e454p-20    0.000002 = 0x1.0c6f7a0b5ed8dp-19
Price4In   == Float(FALSE, <<31, 30687541, 22140560>>)
Price4Out  == Float(FALSE, <<62, 61375082, 44281120>>)
Price16In  == Float(FALSE, <<3, 9779640, 35768488>>)
Price16Out == Float(FALSE, <<4, 13039520, 47691316>>)
Price35In  == Float(FALSE, <<1, 38444252, 17884244>>)
Price35Out == Float(FALSE, <<2, 6519760, 23845658>>)

get_model_stats(model) ==
    CASE model \in {"gpt-4", "gpt-4-0314"} ->
           [input_cost_per_token |-> Price4In,
            output_cost_per_token |-> Price4Out]
      [] model \in {"gpt-3.5-turbo-16k", "gpt-3.5-turbo-16k-0613"} ->
           [input_cost_per_token |-> Price16In,
            output_cost_per_token |-> Price16Out]
      [] model \in {"gpt-3.5-turbo", "gpt-3.5-turbo-0301"} ->
           [input_cost_per_token |-> Price35In,
            output_cost_per_token |-> Price35Out]

(***************************************************************************)
(* get_cost, get_max_cost                                                  *)
(***************************************************************************)
\* mutant: the worst case uses the default max_tokens, not the configured one
get_cost_DefaultMax(params, prompt, query, content, response) ==
    LET n_in == NumTokens(IF prompt # None THEN prompt ELSE DEFAULT_PROMPT)
                + NumTokens(query) + NumTokens(content)
        n_out == IF response # None THEN NumTokens(response)
                 ELSE DefaultMaxTokens
        model_stats == get_model_stats(params.model)
    IN  [token_consumed |-> <<n_in, n_out>>,
         dollar_cost |->
            FloatAdd(FloatMul(model_stats.input_cost_per_token, n_in),
                     FloatMul(model_stats.output_cost_per_token, n_out))]

get_cost(params, prompt, query, content, response) ==
    LET num_prompt_tokens ==
            IF prompt # None THEN NumTokens(prompt)
            ELSE NumTokens(DEFAULT_PROMPT)
        num_query_tokens == NumTokens(query)
        num_content_tokens == NumTokens(content)
        num_response_tokens ==
            IF response # None THEN NumTokens(response)
            ELSE params.max_tokens
        model_stats == get_model_stats(params.model)
        token_consumed ==
            << num_prompt_tokens + num_query_tokens + num_content_tokens,
               num_response_tokens >>
    IN  [token_consumed |-> token_consumed,
         dollar_cost |->
            FloatAdd(FloatMul(model_stats.input_cost_per_token,
                              token_consumed[1]),
                     FloatMul(model_stats.output_cost_per_token,
                              token_consumed[2]))]

get_max_cost(params, prompt, query, content) ==
    get_cost(params, prompt, query, content, None)

(***************************************************************************)
(* model_selection                                                         *)
(***************************************************************************)
\* lines 83-85: add the queries after position i, priced at the last tier
RECURSIVE RestCost(_, _, _, _, _)
RestCost(params, queries, contents, i, dollar_cost) ==
    IF i > Len(queries) THEN dollar_cost
    ELSE RestCost(params, queries, contents, i + 1,
            FloatAdd(dollar_cost,
                     get_max_cost([params EXCEPT !.model = LastChoice],
                                  None, queries[i], contents[i]).dollar_cost))

\* lines 81-85 for the tier at list position k; idx counts from 1
TierCost(params, k, idx, prompt, queries, contents) ==
    RestCost(params, queries, contents, idx + 1,
             get_max_cost([params EXCEPT !.model = MODEL_CHOICES[k]],
                          prompt, queries[idx], contents[idx]).dollar_cost)

TierFits(params, k, idx, prompt, queries, contents, budget) ==
    FloatGeqZero(FloatSub(budget,
                          TierCost(params, k, idx, prompt, queries, contents)))

\* mutant: the cost of the remaining queries is computed without touching
\* model_params["model"]
FieldAfter_Untouched(k, idx, queries) == MODEL_CHOICES[k]

\* the model field left behind by the iteration for one tier
FieldAfter(k, idx, queries) ==
    IF idx < Len(queries) THEN LastChoice ELSE MODEL_CHOICES[k]

RECURSIVE ScanFrom(_, _, _, _, _, _, _)
ScanFrom(k, params, idx, prompt, queries, contents, budget) ==
    IF k > Len(MODEL_CHOICES)
    THEN [model |-> LastChoice,
          field |-> FieldAfter(Len(MODEL_CHOICES), idx, queries),
          scan |-> FALSE]
    ELSE IF TierFits(params, k, idx, prompt, queries, contents, budget)
         THEN [model |-> MODEL_CHOICES[k],
               field |-> FieldAfter(k, idx, queries),
               scan |-> TRUE]
         ELSE ScanFrom(k + 1, params, idx, prompt, queries, contents, budget)

\* mutant: the loop remembers the tier instead of returning it, so the last
\* tier that passes wins
model_selection_LastFit(params, idx, prompt, queries, contents, cost, budget) ==
    LET fit == {k \in 1..Len(MODEL_CHOICES) :
                  TierFits(params, k, idx, prompt, queries, contents, budget)}
        last == CHOOSE k \in fit : \A j \in fit : j <= k
    IN  IF fit = {}
        THEN ScanFrom(1, params, idx, prompt, queries, contents, budget)
        ELSE [model |-> MODEL_CHOICES[last],
              field |-> FieldAfter(Len(MODEL_CHOICES), idx, queries),
              scan |-> TRUE]

\* mutant: the fallback of line 89 returns MODEL_CHOICES[0]
model_selection_FallbackFirst(params, idx, prompt, queries, contents, cost, budget) ==
    LET r == ScanFrom(1, params, idx, prompt, queries, contents, budget)
    IN  IF r.scan THEN r ELSE [r EXCEPT !.model = MODEL_CHOICES[1]]

\* mutant: no fallback, the function falls off its end and returns None
model_selection_NoFallback(params, idx, prompt, queries, contents, cost, budget) ==
    LET r == ScanFrom(1, params, idx, prompt, queries, contents, budget)
    IN  IF r.scan THEN r ELSE [r EXCEPT !.model = None]

\* model: the value returned; field: model_params["model"] on return;
\* scan: returned from inside the loop (line 87), not from line 89
model_selection(params, idx, prompt, queries, contents, cost, budget) ==
    ScanFrom(1, params, idx, prompt, queries, contents, budget)


(***************************************************************************)
(* Sessions: setup, then generate calls                                    *)
(***************************************************************************)
\* two OpenAIChatCompletion objects of one process
Sessions == {"s1", "s2"}

\* setup(**kwargs), lines 54-74: {**_DEFAULT_PARAMS, **kwargs} copies the
\* values of the four keys; the value of "messages" is the list object
\* itself, which is not copied
setup(kwargs) ==
    [k \in DOMAIN DEFAULT_PARAMS |->
        IF k \in DOMAIN kwargs THEN kwargs[k] ELSE DEFAULT_PARAMS[k]]

\* generate has returned nothing (yet); what it returns is a pair
NoReturn == << >>

\* no request was made (yet)
NoRequest ==
    [model |-> None, temperature |-> 0, max_tokens |-> 0, messages |-> None]

\* setup() without keyword arguments
NoKwargs == [k \in {} |-> None]

VARIABLES
    model_params,   \* per session: self.model_params; its "messages" value
                    \* names a list object
    lists,          \* the list objects: their current contents
    self,           \* the session whose generate is running (or ran last)
    calls,          \* generate calls started so far
    scope,          \* which inputs the environment draws from
    OPENAI_BUDGET,  \* the environment value read at entry of generate, 0
                    \* before it is read
    queries, contents, prompt,   \* arguments of generate
    budget, cost,   \* locals of generate, floats once a cost was applied
    results, models,
    model,          \* local of generate: the value model_selection returned
    idx,            \* position of the current query, counted from 1
    tries_left,     \* attempts the retry wrapper has left, 0 outside a call
    request,        \* keyword arguments of completion_with_backoff
    response,       \* value returned by completion_with_backoff
    ret,            \* what generate returned to its caller, None if nothing
    pc,
    \* history
    passed,         \* per position: model_selection returned from the scan
    cost_queries,   \* per position: cost_query
    failures,       \* attempts of the current call that raised
    attempts        \* provider attempts of this generate call (scope
                    \* "attempts" only)

vars == << model_params, lists, self, calls, scope, OPENAI_BUDGET, queries,
           contents, prompt, budget, cost, results, models, model, idx,
           tries_left, request, response, ret, pc, passed, cost_queries,
           failures, attempts >>

Batches ==
    UNION { [1..n -> Queries \X Contents] : n \in 0..MaxBatch }

\* values of OPENAI_BUDGET, which int() parses: whole dollars
Budgets == {0, 1}

\* the inputs of the three scopes: "batch" explores one generate call of one
\* session over all inputs, "sessions" explores successive calls of both
\* sessions over batches of at most one query, "attempts" counts the
\* provider attempts of one call over batches of the same query
Callers == IF scope = "sessions" THEN Sessions ELSE {"s1"}

InBudgets == IF scope = "batch" THEN Budgets ELSE {1}

InBatches ==
    CASE scope = "batch" -> Batches
      [] scope = "sessions" ->
            UNION { [1..n -> Queries \X {"c_short"}] : n \in 0..1 }
      [] OTHER -> UNION { [1..n -> Queries \X {"c_short"}] : n \in 0..MaxBatch }

InPrompts == IF scope = "attempts" THEN {None} ELSE Prompts

InResponses == IF scope = "batch" THEN Responses ELSE {"r_short"}

\* the locals of generate outside a call
NoCall ==
    /\ OPENAI_BUDGET = 0
    /\ queries = << >>
    /\ contents = << >>
    /\ prompt = None
    /\ budget = FloatOfInt(0)
    /\ cost = FloatOfInt(0)
    /\ results = << >>
    /\ models = << >>
    /\ model = None
    /\ idx = 0
    /\ tries_left = 0
    /\ request = NoRequest
    /\ response = None
    /\ ret = NoReturn
    /\ passed = << >>
    /\ cost_queries = << >>
    /\ failures = 0
    /\ attempts = 0

\* both sessions set up, no generate call yet; every list object is empty
AfterSetup(sc, kwargs) ==
    /\ scope = sc
    /\ model_params = [s \in Sessions |-> setup(kwargs[s])]
    /\ lists = [l \in {DEFAULT_MESSAGES} \cup Sessions |-> << >>]
    /\ self = "s1"
    /\ calls = 0
    /\ pc = "idle"
    /\ NoCall

\* s1 is set up with or without max_tokens=16000, s2 without arguments
Init ==
    \E mt \in SetupMaxTokens :
        AfterSetup("batch", [s \in Sessions |->
            IF s = "s1" /\ mt # DefaultMaxTokens
            THEN [max_tokens |-> mt] ELSE NoKwargs])

\* each session is set up without arguments or with messages=[], a list of
\* its own (named after the session)
InitSessions ==
    \E own \in SUBSET Sessions :
        AfterSetup("sessions", [s \in Sessions |->
            IF s \in own THEN [messages |-> s] ELSE NoKwargs])

InitLive ==
    \E mt \in SetupMaxTokens :
        AfterSetup("attempts", [s \in Sessions |->
            IF s = "s1" /\ mt # DefaultMaxTokens
            THEN [max_tokens |-> mt] ELSE NoKwargs])

\* lines 92-102: entry of generate
GenerateStart ==
    /\ pc = "idle"
    /\ calls < MaxCalls
    /\ calls' = calls + 1
    /\ \E s \in Callers : self' = s
    /\ \E b \in InBudgets, batch \in InBatches, p \in InPrompts :
          /\ OPENAI_BUDGET' = b
          /\ budget' = FloatOfInt(b)
          /\ queries' = [i \in 1..Len(batch) |-> batch[i][1]]
          /\ contents' = [i \in 1..Len(batch) |-> batch[i][2]]
          /\ prompt' = p
          /\ idx' = IF Len(batch) = 0 THEN 0 ELSE 1
          /\ pc' = IF Len(batch) = 0 THEN "done" ELSE "select"
          /\ ret' = IF Len(batch) = 0 THEN << << >>, << >> >> ELSE NoReturn
    /\ cost' = FloatOfInt(0)
    /\ results' = << >>
    /\ models' = << >>
    /\ UNCHANGED << model_params, lists, scope, model, tries_left, request,
                    response, passed, cost_queries, failures, attempts >>

\* line 111: the call of model_selection, which leaves its last assignment
\* in model_params["model"]
SelectModel ==
    /\ pc = "select"
    /\ LET sel == model_selection(model_params[self], idx, prompt, queries,
                                  contents, cost, budget)
       IN  /\ model' = sel.model
           /\ model_params' = [model_params EXCEPT ![self].model = sel.field]
           /\ passed' = Append(passed, sel.scan)
    /\ pc' = "selected"
    /\ UNCHANGED << lists, self, calls, scope, OPENAI_BUDGET, queries,
                    contents, prompt, budget, cost, results, models, idx,
                    tries_left, request, response, ret, cost_queries,
                    failures, attempts >>

\* mutant: line 115 is missing, the field keeps what model_selection left
AppendModel_NoAssign ==
    /\ pc = "selected"
    /\ IF model = None
       THEN /\ pc' = "assert_failed"
            /\ UNCHANGED << models, model_params >>
       ELSE /\ pc' = "build"
            /\ models' = Append(models, model)
            /\ UNCHANGED model_params
    /\ UNCHANGED << lists, self, calls, scope, OPENAI_BUDGET, queries,
                    contents, prompt, budget, cost, results, model, idx,
                    tries_left, request, response, ret, passed, cost_queries,
                    failures, attempts >>

\* lines 112-115
AppendModel ==
    /\ pc = "selected"
    /\ IF model = None
       THEN /\ pc' = "assert_failed"
            /\ UNCHANGED << models, model_params >>
       ELSE /\ pc' = "build"
            /\ models' = Append(models, model)
            /\ model_params' = [model_params EXCEPT ![self].model = model]
    /\ UNCHANGED << lists, self, calls, scope, OPENAI_BUDGET, queries,
                    contents, prompt, budget, cost, results, model, idx,
                    tries_left, request, response, ret, passed, cost_queries,
                    failures, attempts >>

\* lines 103-108, 117-129, and the call of the retry wrapper at line 131,
\* whose keyword arguments are the values of model_params at that moment
BuildRequest ==
    /\ pc = "build"
    /\ LET def_sys_prompt_message ==
               [role |-> "system",
                content |-> IF prompt # None THEN prompt ELSE DEFAULT_PROMPT]
       IN  lists' =
             [lists EXCEPT ![model_params[self].messages] =
                 Append(@, def_sys_prompt_message) \o
                 << [role |-> "user",
                     content |-> <<"Here is some context : ", contents[idx]>>],
                    [role |-> "user",
                     content |-> <<"Complete the following task: ",
                                   queries[idx]>>] >>]
    /\ request' = model_params[self]
    /\ tries_left' = Tries
    /\ failures' = 0
    /\ pc' = "invoke"
    /\ UNCHANGED << model_params, self, calls, scope, OPENAI_BUDGET, queries,
                    contents, prompt, budget, cost, results, models, model,
                    idx, response, ret, passed, cost_queries, attempts >>

\* mutant: the messages are built inside the retried function, so a failed
\* attempt leaves the three messages of the query in the list once more
InvokeFail_Rebuild ==
    /\ pc = "invoke"
    /\ tries_left > 0
    /\ tries_left' = tries_left - 1
    /\ failures' = failures + 1
    /\ attempts' = IF scope = "attempts" THEN attempts + 1 ELSE attempts
    /\ pc' = IF tries_left' = 0 THEN "aborted" ELSE "invoke"
    /\ lists' = [lists EXCEPT ![model_params[self].messages] =
                    @ \o SubSeq(@, Len(@) - 2, Len(@))]
    /\ UNCHANGED << model_params, self, calls, scope, OPENAI_BUDGET,
                    queries, contents, prompt, budget, cost, results, models,
                    model, idx, request, response, ret, passed,
                    cost_queries >>

\* lines 95-97: one attempt of client.chat.completions.create raises
InvokeFail ==
    /\ pc = "invoke"
    /\ tries_left > 0
    /\ tries_left' = tries_left - 1
    /\ failures' = failures + 1
    /\ attempts' = IF scope = "attempts" THEN attempts + 1 ELSE attempts
    /\ pc' = IF tries_left' = 0 THEN "aborted" ELSE "invoke"
    /\ UNCHANGED << model_params, lists, self, calls, scope, OPENAI_BUDGET,
                    queries, contents, prompt, budget, cost, results, models,
                    model, idx, request, response, ret, passed,
                    cost_queries >>

\* lines 95-97: one attempt returns a completion
InvokeSucceed ==
    /\ pc = "invoke"
    /\ tries_left > 0
    /\ \E r \in InResponses : response' = r
    /\ attempts' = IF scope = "attempts" THEN attempts + 1 ELSE attempts
    /\ pc' = "account"
    /\ UNCHANGED << model_params, lists, self, calls, scope, OPENAI_BUDGET,
                    queries, contents, prompt, budget, cost, results, models,
                    model, idx, tries_left, request, ret, passed,
                    cost_queries, failures >>

\* mutant: the answer is put in front of the earlier answers
AccountCost_Prepend ==
    /\ pc = "account"
    /\ LET answer == response
           cost_query == get_cost(model_params[self], prompt, queries[idx],
                                  contents[idx], answer).dollar_cost
       IN  /\ cost' = FloatAdd(cost, cost_query)
           /\ budget' = FloatSub(budget, cost_query)
           /\ results' = << answer >> \o results
           /\ cost_queries' = Append(cost_queries, cost_query)
    /\ IF idx = Len(queries)
       THEN /\ pc' = "done"
            /\ ret' = << results', models >>
            /\ idx' = idx
       ELSE /\ pc' = "select"
            /\ ret' = ret
            /\ idx' = idx + 1
    /\ tries_left' = 0
    /\ failures' = 0
    /\ UNCHANGED << model_params, lists, self, calls, scope, OPENAI_BUDGET,
                    queries, contents, prompt, models, model, request,
                    response, passed, attempts >>

\* mutant: the realized cost is added to cost but not taken off the budget
AccountCost_NoSubtract ==
    /\ pc = "account"
    /\ LET answer == response
           cost_query == get_cost(model_params[self], prompt, queries[idx],
                                  contents[idx], answer).dollar_cost
       IN  /\ cost' = FloatAdd(cost, cost_query)
           /\ budget' = budget
           /\ results' = Append(results, answer)
           /\ cost_queries' = Append(cost_queries, cost_query)
    /\ IF idx = Len(queries)
       THEN /\ pc' = "done"
            /\ ret' = << results', models >>
            /\ idx' = idx
       ELSE /\ pc' = "select"
            /\ ret' = ret
            /\ idx' = idx + 1
    /\ tries_left' = 0
    /\ failures' = 0
    /\ UNCHANGED << model_params, lists, self, calls, scope, OPENAI_BUDGET,
                    queries, contents, prompt, models, model, request,
                    response, passed, attempts >>

\* lines 132-141
AccountCost ==
    /\ pc = "account"
    /\ LET answer == response
           cost_query == get_cost(model_params[self], prompt, queries[idx],
                                  contents[idx], answer).dollar_cost
       IN  /\ cost' = FloatAdd(cost, cost_query)
           /\ budget' = FloatSub(budget, cost_query)
           /\ results' = Append(results, answer)
           /\ cost_queries' = Append(cost_queries, cost_query)
    /\ IF idx = Len(queries)
       THEN /\ pc' = "done"
            /\ ret' = << results', models >>
            /\ idx' = idx
       ELSE /\ pc' = "select"
            /\ ret' = ret
            /\ idx' = idx + 1
    /\ tries_left' = 0
    /\ failures' = 0
    /\ UNCHANGED << model_params, lists, self, calls, scope, OPENAI_BUDGET,
                    queries, contents, prompt, models, model, request,
                    response, passed, attempts >>

\* generate has returned (line 141) or raised (lines 97, 112): its frame is
\* gone and the caller may call generate again; the sessions stay
Return ==
    /\ pc \in {"done", "aborted", "assert_failed"}
    /\ calls < MaxCalls
    /\ pc' = "idle"
    /\ OPENAI_BUDGET' = 0
    /\ queries' = << >>
    /\ contents' = << >>
    /\ prompt' = None
    /\ budget' = FloatOfInt(0)
    /\ cost' = FloatOfInt(0)
    /\ results' = << >>
    /\ models' = << >>
    /\ model' = None
    /\ idx' = 0
    /\ tries_left' = 0
    /\ request' = NoRequest
    /\ response' = None
    /\ ret' = NoReturn
    /\ passed' = << >>
    /\ cost_queries' = << >>
    /\ failures' = 0
    /\ attempts' = 0
    /\ UNCHANGED << model_params, lists, self, calls, scope >>

Next ==
    \/ GenerateStart
    \/ SelectModel
    \/ AppendModel
    \/ BuildRequest
    \/ InvokeFail
    \/ InvokeSucceed
    \/ AccountCost

\* one generate call of one session
Spec == Init /\ [][Next]_vars

NextSessions ==
    \/ Next
    \/ Return

\* successive generate calls of two sessions of one process
SpecSessions == InitSessions /\ [][NextSessions]_vars

\* a generate call is between its entry and its return or raise
Running == pc \in {"select", "selected", "build", "invoke", "account"}

\* the running call leaves its current phase
Advance ==
    /\ Running
    /\ pc' \in {"select", "selected", "build", "assert_failed", "invoke",
                "account", "aborted", "done"}

\* one generate call that does not stall: the statements of generate run to
\* their end and every provider attempt returns or raises, so a running call
\* does not stay in one phase for ever
SpecLive == InitLive /\ [][Next]_vars /\ WF_pc(Advance)


(***************************************************************************)
(* Properties                                                              *)
(***************************************************************************)
PosOf(m) == CHOOSE k \in 1..Len(MODEL_CHOICES) : MODEL_CHOICES[k] = m

\* worst-case cost of the current query at the tier in list position k
WorstCase(k) ==
    get_max_cost([model_params[self] EXCEPT !.model = MODEL_CHOICES[k]],
                 prompt, queries[idx], contents[idx]).dollar_cost

\* the budget check of line 86 for tier k, at the current position
Fits(k) == TierFits(model_params[self], k, idx, prompt, queries, contents, budget)

Tiers == 1..Len(MODEL_CHOICES)

\* the selection for the current position was just made, its budget unchanged
Selected == pc = "build"

CoversEveryTier == Len(queries) = 1 /\ \A j \in Tiers : Fits(j)

C4_AlwaysATier ==
    /\ pc # "assert_failed"
    /\ \A i \in 1..Len(models) : models[i] \in Models
    /\ ret # NoReturn =>
          \A i \in 1..Len(ret[2]) : ret[2][i] \in Models

\* a selection made with a negative budget
C4_Witness ==
    /\ Selected
    /\ budget.neg
    /\ models[idx] \in Models


WithinMax(text) == NumTokens(text) <= model_params[self].max_tokens

\* C5: once the selection at a position i passed the budget check, and while
\* no response since then exceeded max_tokens, the budget after every query
\* from i on is >= 0 and every later selection passes the check as well.
C5_NoStranding ==
    \A i \in 1..Len(passed) :
        (passed[i] /\ \A k \in i..Len(results) : WithinMax(results[k])) =>
            /\ Len(results) >= i => FloatGeqZero(budget)
            /\ \A k \in (i + 1)..Len(passed) : passed[k]

RECURSIVE FloatSum(_)
FloatSum(seq) ==
    IF seq = << >> THEN FloatOfInt(0)
    ELSE FloatAdd(FloatSum(SubSeq(seq, 1, Len(seq) - 1)), seq[Len(seq)])

\* C6: at every point of a generate call the remaining budget is the initial
\* budget minus the sum of the realized costs accounted so far, and spend
\* plus remaining budget is the initial budget; each realized cost is the
\* cost of the actual response at the tier selected for it.
C6_ExactAccounting ==
    pc # "idle" =>
        /\ Len(cost_queries) = Len(results)
        /\ \A k \in 1..Len(results) :
              cost_queries[k] =
                 get_cost([model_params[self] EXCEPT !.model = models[k]], prompt,
                          queries[k], contents[k], results[k]).dollar_cost
        /\ budget = FloatSub(FloatOfInt(OPENAI_BUDGET), FloatSum(cost_queries))
        /\ FloatAdd(cost, budget) = FloatOfInt(OPENAI_BUDGET)

\* a response has arrived and its cost is about to be accounted
Answered == pc = "account"

CostAt(m) ==
    get_cost([model_params[self] EXCEPT !.model = m], prompt, queries[idx],
             contents[idx], response)

MaxCostAt(m) ==
    get_max_cost([model_params[self] EXCEPT !.model = m], prompt, queries[idx],
                 contents[idx])

\* C7: for every tier, the worst-case estimate of a query is at least the
\* cost computed with an actual response of at most max_tokens tokens; the
\* input token counts agree and the output count is bounded by max_tokens.
C7_MaxCostIsUpperBound ==
    (Answered /\ WithinMax(response)) =>
        \A m \in Models :
            LET actual == CostAt(m)
                worst  == MaxCostAt(m)
            IN  /\ FloatLeq(actual.dollar_cost, worst.dollar_cost)
                /\ actual.token_consumed[1] = worst.token_consumed[1]
                /\ actual.token_consumed[2] <= worst.token_consumed[2]

\* a response shorter than max_tokens, strictly cheaper than the estimate
C7_Witness ==
    /\ Answered
    /\ NumTokens(response) < model_params[self].max_tokens
    /\ ~FloatLeq(MaxCostAt(model_params[self].model).dollar_cost,
                 CostAt(model_params[self].model).dollar_cost)

\* C8: for every tier, a response of exactly max_tokens tokens makes get_cost
\* and get_max_cost return the same token counts and the same dollar cost.
C8_AgreeAtMaxTokens ==
    (Answered /\ NumTokens(response) = model_params[self].max_tokens) =>
        \A m \in Models : CostAt(m) = MaxCostAt(m)

\* a response of exactly max_tokens tokens under an overridden max_tokens
C8_Witness ==
    /\ Answered
    /\ NumTokens(response) = model_params[self].max_tokens
    /\ model_params[self].max_tokens # DefaultMaxTokens


\* C9: a provider call that raised on at most 5 attempts is retried, and
\* when an attempt then returns, the query completes with that response:
\* the response is appended to results, its cost is accounted exactly once,
\* by the accounting step, and the batch goes on to the next query or ends.
C9_RetryThenSucceed ==
    [][ /\ (pc = "invoke" /\ failures' = failures + 1 /\ failures' <= 5) =>
              pc' = "invoke"
        /\ (pc = "invoke" /\ pc' = "account") =>
              /\ failures <= 5
              /\ response' \in Responses
              /\ UNCHANGED << results, cost, budget, cost_queries, models,
                              idx >>
        /\ pc = "account" =>
              /\ results' = Append(results, response)
              /\ cost_queries' =
                    Append(cost_queries, CostAt(models[idx]).dollar_cost)
              /\ cost' = FloatAdd(cost, CostAt(models[idx]).dollar_cost)
              /\ budget' = FloatSub(budget, CostAt(models[idx]).dollar_cost)
              /\ idx < Len(queries) => pc' = "select" /\ idx' = idx + 1
              /\ idx = Len(queries) => pc' = "done" /\ ret' = <<results', models>>
        /\ Len(cost_queries') # Len(cost_queries) => pc = "account"
      ]_vars

\* the sixth attempt returned after five failures
C9_Witness ==
    /\ pc = "account"
    /\ failures = 5
    /\ response \in Responses

\* C10: the sixth consecutive failure of a provider call aborts generate:
\* there is no seventh attempt, no later query is selected, built or
\* invoked, nothing happens after the abort, and the caller receives no
\* results, whatever queries had completed.
C10_AbortAfterSixFailures ==
    /\ [](/\ failures <= 6
          /\ failures = 6 => pc = "aborted"
          /\ pc = "aborted" =>
                /\ failures = 6
                /\ ret = NoReturn
                /\ Len(models) = idx
                /\ Len(results) = idx - 1
                /\ Len(lists[model_params[self].messages]) = 3 * idx)
    /\ [][pc = "aborted" => UNCHANGED vars]_vars

\* an abort at a query that follows a completed one
C10_Witness ==
    /\ pc = "aborted"
    /\ Len(results) >= 1
    /\ ret = NoReturn

\* C11: when generate completes a batch of N queries it returns the pair
\* (results, models), both of length N; results grows only by appending, at
\* position idx, the response just obtained for query idx, and models grows
\* only by appending, at position idx, the value model_selection returned
\* for query idx; all the time Len(results) <= Len(models) <=
\* Len(results) + 1.
C11_AlignedResults ==
    /\ [](/\ Len(results) <= Len(models)
          /\ Len(models) <= Len(results) + 1
          /\ pc = "done" =>
                /\ ret = << results, models >>
                /\ Len(ret[1]) = Len(queries)
                /\ Len(ret[2]) = Len(queries))
    /\ [][/\ results' # results =>
                /\ pc = "account"
                /\ Len(results) = idx - 1
                /\ results' = Append(results, response)
          /\ models' # models =>
                /\ pc = "selected"
                /\ Len(models) = idx - 1
                /\ models' = Append(models, model)
          /\ pc = "select" =>
                model' = model_selection(model_params[self], idx, prompt,
                                         queries, contents, cost,
                                         budget).model]_vars

C11_Witness ==
    /\ pc = "done"
    /\ Len(queries) = 2
    /\ ret[1][1] # ret[1][2]
    /\ ret[2][1] # ret[2][2]

\* the three messages of the query at position i, in the order of lines
\* 117-129
MessagesOf(i) ==
    << [role |-> "system",
        content |-> IF prompt = None THEN DEFAULT_PROMPT ELSE prompt],
       [role |-> "user", content |-> <<"Here is some context : ", contents[i]>>],
       [role |-> "user",
        content |-> <<"Complete the following task: ", queries[i]>>] >>

RECURSIVE MessagesUpTo(_)
MessagesUpTo(i) == IF i = 0 THEN << >> ELSE MessagesUpTo(i - 1) \o MessagesOf(i)

\* the request of the current query is with the provider or was answered
Sent == pc \in {"invoke", "account"}

\* C12: during a batch the session's message list changes only when a query
\* is built, and then by appending the three messages system (prompt or
\* default prompt), user context, user task at its end; provider attempts,
\* failed or not, leave every list as it is; and the list the request of
\* query idx refers to ends with the messages of the queries 1..idx of the
\* batch, in order.
C12_AppendOnlyMessages ==
    /\ [][/\ pc = "build" =>
                lists' = [lists EXCEPT ![model_params[self].messages] =
                             @ \o MessagesOf(idx)]
          /\ pc # "build" => lists' = lists]_vars
    /\ [](Sent =>
            LET sent == lists[request.messages]
            IN  /\ request.messages = model_params[self].messages
                /\ Len(sent) >= 3 * idx
                /\ SubSeq(sent, Len(sent) - 3 * idx + 1, Len(sent)) =
                      MessagesUpTo(idx))

\* the second query of a batch with a prompt, after failed attempts
C12_Witness ==
    /\ pc = "invoke"
    /\ idx = 2
    /\ failures = 3
    /\ prompt # None
    /\ contents[1] # contents[2]
    /\ Len(lists[request.messages]) = 6

\* the message list that session s sends
MessageList(s) == lists[model_params[s].messages]

\* C13: whenever a generate call can be entered, the message list of every
\* session is as it was right after setup (empty): it holds no message
\* appended by an earlier generate call, completed or aborted.
C13_FreshMessagesAtEntry ==
    pc = "idle" => \A s \in Sessions : MessageList(s) = << >>

\* C14: a step of a generate call on one session leaves the message list
\* of the other session as it is, when both were set up without a
\* "messages" argument.
C14_MessagesOwnedBySession ==
    [][\A s \in Sessions \ {self'} :
          (/\ model_params[s].messages = DEFAULT_PARAMS.messages
           /\ model_params[self'].messages = DEFAULT_PARAMS.messages) =>
              MessageList(s)' = MessageList(s)]_vars

\* the current selection round started with the budget the state shows
Round == pc \in {"selected", "build", "invoke"}

\* once negative, the budget of a batch stays negative; a selection made
\* with a negative budget is followed by the append of its tier and then by
\* the request to the provider, never by a stop
ProceedsWhenNegative ==
    /\ (budget.neg /\ pc # "idle") => budget'.neg
    /\ (budget.neg /\ pc = "selected") => pc' = "build"
    /\ (budget.neg /\ pc = "build") => pc' = "invoke" /\ tries_left' = Tries

RECURSIVE BudgetAfter(_, _)
BudgetAfter(b, costs) ==
    IF costs = << >> THEN b
    ELSE BudgetAfter(FloatSub(b, Head(costs)), Tail(costs))

\* the steps of one query, and the only step that moves to the next query
InOrder ==
    /\ pc = "select" => pc' = "selected"
    /\ pc = "selected" => pc' \in {"build", "assert_failed"}
    /\ pc = "build" => pc' = "invoke"
    /\ pc = "invoke" => pc' \in {"invoke", "account", "aborted"}
    /\ pc = "account" =>
          /\ pc' = IF idx = Len(queries) THEN "done" ELSE "select"
          /\ budget' = FloatSub(budget, CostAt(models[idx]).dollar_cost)
          /\ cost_queries' =
                Append(cost_queries, CostAt(models[idx]).dollar_cost)
    /\ idx' # idx =>
          /\ pc \in {"idle", "account"}
          /\ idx' = idx + 1

\* C16: the queries of a batch are processed one at a time in input order,
\* each through select, build, invoke, account; when the selection for the
\* query at position idx starts, the queries before it have all been
\* answered and their realized costs have been subtracted, in order, from
\* the initial budget; a provider call for position idx is made only when
\* all earlier positions have succeeded.
C16_OneQueryAtATime ==
    /\ [][InOrder]_vars
    /\ [](pc \in {"select", "selected", "build", "invoke"} =>
            /\ Len(results) = idx - 1
            /\ Len(cost_queries) = idx - 1
            /\ budget = BudgetAfter(FloatOfInt(OPENAI_BUDGET), cost_queries))
    /\ [](pc \in {"select", "selected", "build"} => tries_left = 0)

\* the selection of the second query sees the budget less the first cost
C16_Witness ==
    /\ pc = "select"
    /\ idx = 2
    /\ Len(cost_queries) = 1
    /\ budget # FloatOfInt(OPENAI_BUDGET)
    /\ budget = FloatSub(FloatOfInt(OPENAI_BUDGET), cost_queries[1])

\* model_selection has just returned (line 111)
Returned == pc = "selected"

\* C17: when model_selection returns and at least one query remains after
\* position idx, model_params["model"] is the last tier of MODEL_CHOICES,
\* whichever tier is returned; the call changes model_params in its model
\* field only, so temperature, max_tokens and the message list are as
\* before, and it changes no list content.
C17_SelectionLeavesLastTier ==
    /\ []((Returned /\ idx < Len(queries)) =>
             model_params[self].model = LastChoice)
    /\ [][pc = "select" =>
             /\ model_params' =
                   [model_params EXCEPT ![self].model =
                                            model_params'[self].model]
             /\ lists' = lists]_vars

\* the field differs from the tier returned
C17_Witness ==
    /\ Returned
    /\ idx < Len(queries)
    /\ model \in Models
    /\ model # model_params[self].model
    /\ model_params[self].model = LastChoice
    /\ model_params[self].max_tokens # DefaultMaxTokens

\* generate has returned its results, or has raised out of the retry wrapper
Terminated == pc \in {"done", "aborted"}

\* C18: every generate call over a finite batch ends, whatever the provider
\* does: it reaches done, or aborted at the first query whose 6 attempts
\* all failed; no query gets more than 6 provider attempts and the batch no
\* more than 6 * N.
C18_GenerateTerminates ==
    /\ Running ~> Terminated
    /\ [](/\ failures <= 6
          /\ pc = "account" => failures <= 5
          /\ attempts <= 6 * idx
          /\ attempts <= 6 * Len(queries)
          /\ pc = "aborted" => failures = 6 /\ Len(results) = idx - 1
          /\ pc = "done" => Len(results) = Len(queries))

\* a batch of two queries that used every attempt it had
C18_Witness ==
    /\ pc = "done"
    /\ Len(queries) = 2
    /\ attempts = 6 * Len(queries)

\* C19: for every query of a batch, the model of the request handed to the
\* retry wrapper, which every attempt sends unchanged, and the model field
\* that get_cost reads when the realized cost is computed are both
\* models[idx], the tier model_selection returned for that position, and the
\* realized cost is computed at that tier's prices.
C19_RequestAndCostUseSelectedTier ==
    /\ [](Sent =>
            /\ Len(models) = idx
            /\ models[idx] = model
            /\ request.model = models[idx]
            /\ model_params[self].model = models[idx])
    /\ [][/\ pc = "invoke" => request' = request
          /\ pc = "account" =>
                cost_queries' =
                    Append(cost_queries,
                           get_cost([model |-> models[idx],
                                     max_tokens |-> request.max_tokens],
                                    prompt, queries[idx], contents[idx],
                                    response).dollar_cost)]_vars

\* the tier sent and billed is not the one model_selection left in the field
C19_Witness ==
    /\ pc = "account"
    /\ idx < Len(queries)
    /\ failures > 0
    /\ models[idx] # LastChoice
    /\ request.model = models[idx]

=============================================================================
